---- MODULE Spec2Model ----
(***************************************************************************)
(* Model of headless/examples/abst_helpers.py: the transport helpers get   *)
(* and post, the simulation driver run_sim, the Results class with its     *)
(* compare method, and avg.  The program is single-threaded: pc is the     *)
(* position of the one thread, "idle" when control is with the caller.     *)
(***************************************************************************)
EXTENDS Integers, Sequences, FiniteSets

\* ---------------------------------------------------------------- bounds
MaxRaw == 2        \* longest raw trip list the service returns
MaxDur == 2        \* largest duration (seconds) the service reports

\* ------------------------------------------------------------- constants
\* requests.codes.ok
codes_ok == 200

\* ---------------------------------------------------------- Python values
\* An optional value: Python's None, or a present value.
None == [some |-> FALSE, val |-> 0]
Some(v) == [some |-> TRUE, val |-> v]

\* Truthiness of an optional number, as `if before_dt:` evaluates it:
\* None and 0 are falsy, every other number is truthy.
Truthy(x) == x.some /\ x.val # 0

\* A dict is the sequence of its <<key, value>> items in insertion order.
DictKeys(d) == {d[i][1] : i \in DOMAIN d}

\* dict.get(k): the value, or None when the key is absent.
DictGet(d, k) ==
    IF k \in DictKeys(d)
    THEN Some(d[CHOOSE i \in DOMAIN d : d[i][1] = k][2])
    ELSE None

\* d[k] = v: overwrite in place when the key exists, else append.
DictSet(d, k, v) ==
    IF k \in DictKeys(d)
    THEN [i \in DOMAIN d |-> IF d[i][1] = k THEN <<k, v>> ELSE d[i]]
    ELSE Append(d, <<k, v>>)

\* ------------------------------------------------------- remote service
\* trip identifiers the service may report
Trips == {"A", "B"}
Durations == 0..MaxDur
\* mode as the service sends it: JSON null, or the name of a mode
ModeNull == "null"
Modes == {ModeNull, "Walk"}
StatusCodes == {codes_ok, 500}
ErrorTexts == {"bad request", "internal error"}

\* The 'trips' field of /data/get-finished-trips: records
\* [id, trip_identifier, mode_or_null, duration_seconds].
RawLists ==
    UNION {[1..n -> {0} \X Trips \X Modes \X Durations] : n \in 0..MaxRaw}

\* What the service may answer: a status, a body text, and (for the
\* finished-trips call) the decoded JSON.
Responses ==
    {[status_code |-> codes_ok, text |-> "ok", trips |-> <<>>]}
    \cup [status_code : StatusCodes \ {codes_ok}, text : ErrorTexts, trips : {<<>>}]
TripResponses ==
    [status_code : {codes_ok}, text : {"ok"}, trips : RawLists]
    \cup [status_code : StatusCodes \ {codes_ok}, text : ErrorTexts, trips : {<<>>}]

\* ------------------------------------------------------ transport helpers
\* Mutant of get: the status check forgotten
get_nocheck(resp) == [raised |-> FALSE, exc |-> None]

\* get(args, cmd): raise Exception(resp.text) unless the status is ok.
get(resp) ==
    IF resp.status_code # codes_ok
    THEN [raised |-> TRUE, exc |-> Some(resp.text)]
    ELSE [raised |-> FALSE, exc |-> None]

\* Mutant of post: the status check forgotten
post_nocheck(resp) == [raised |-> FALSE, exc |-> None]

\* post(args, cmd): raise Exception(resp.text) unless the status is ok.
post(resp) ==
    IF resp.status_code # codes_ok
    THEN [raised |-> TRUE, exc |-> Some(resp.text)]
    ELSE [raised |-> FALSE, exc |-> None]

\* ----------------------------------------------------------- reduction
\* Mutant of the reduction: the `else` forgotten, every record is stored
RECURSIVE reduce_loop_noelse(_, _, _, _)
reduce_loop_noelse(raw, i, na, tt) ==
    IF i > Len(raw) THEN [num_aborted |-> na, trip_times |-> tt]
    ELSE reduce_loop_noelse(raw, i + 1,
                            IF raw[i][3] = ModeNull THEN na + 1 ELSE na,
                            DictSet(tt, raw[i][2], raw[i][4]))

\* Mutant of the reduction: the test inverted (`is not None`)
RECURSIVE reduce_loop_inverted(_, _, _, _)
reduce_loop_inverted(raw, i, na, tt) ==
    IF i > Len(raw) THEN [num_aborted |-> na, trip_times |-> tt]
    ELSE IF raw[i][3] # ModeNull
         THEN reduce_loop_inverted(raw, i + 1, na + 1, tt)
         ELSE reduce_loop_inverted(raw, i + 1, na, DictSet(tt, raw[i][2], raw[i][4]))

\* The loop of run_sim over raw_trips, from record i on, with the
\* accumulators num_aborted (na) and trip_times (tt).
RECURSIVE reduce_loop(_, _, _, _)
reduce_loop(raw, i, na, tt) ==
    IF i > Len(raw) THEN [num_aborted |-> na, trip_times |-> tt]
    ELSE IF raw[i][3] = ModeNull
         THEN reduce_loop(raw, i + 1, na + 1, tt)
         ELSE reduce_loop(raw, i + 1, na, DictSet(tt, raw[i][2], raw[i][4]))

\* ------------------------------------------------------------- averages
RECURSIVE SumSeq(_)
SumSeq(s) == IF s = <<>> THEN 0 ELSE Head(s) + SumSeq(Tail(s))

StatisticsError == [err |-> TRUE, num |-> 0, den |-> 1]

\* statistics.mean: the exact mean num/den; raises on empty data.
mean(data) ==
    IF data = <<>> THEN StatisticsError
    ELSE [err |-> FALSE, num |-> SumSeq(data), den |-> Len(data)]

\* Mutant of avg: the emptiness test forgotten
avg_noguard(data) == mean(data)

\* avg(data): the mean, or 0.0 for empty data.
avg(data) ==
    IF data # <<>> THEN mean(data)
    ELSE [err |-> FALSE, num |-> 0, den |-> 1]

\* '{:.1f}'.format(x), as a number of tenths: x rounded to one decimal,
\* ties to even.  (A tie needs a mean that is an odd multiple of 1/20; for
\* fewer than 20 values such a mean is an odd multiple of 1/4, which a
\* binary float holds exactly.)
Format1f(x) ==
    LET n == 10 * x.num
        q == n \div x.den
        r == n % x.den
    IN  IF 2 * r < x.den THEN q
        ELSE IF 2 * r > x.den THEN q + 1
        ELSE IF q % 2 = 0 THEN q ELSE q + 1

\* One printed line: the count, the average in tenths, and its wording.
Line(data, what) ==
    [count |-> Len(data), tenths |-> Format1f(avg(data)), what |-> what]

\* ------------------------------------------------------------- compare
\* Mutants of the loop body of compare.
\* faster.append(before_dt) : the subtraction forgotten
compare_step_nosub(before, trip, after_dt, faster, slower) ==
    LET before_dt == DictGet(before, trip)
    IN  IF ~Truthy(before_dt) THEN [faster |-> faster, slower |-> slower]
        ELSE IF before_dt.val > after_dt
             THEN [faster |-> Append(faster, before_dt.val), slower |-> slower]
             ELSE IF after_dt > before_dt.val
                  THEN [faster |-> faster, slower |-> Append(slower, after_dt)]
                  ELSE [faster |-> faster, slower |-> slower]

\* get(trip, 0) and no skip: a missing baseline trip counts as duration 0
compare_step_default0(before, trip, after_dt, faster, slower) ==
    LET got == DictGet(before, trip)
        before_dt == IF got.some THEN got.val ELSE 0
    IN  IF before_dt > after_dt
        THEN [faster |-> Append(faster, before_dt - after_dt), slower |-> slower]
        ELSE IF after_dt > before_dt
             THEN [faster |-> faster, slower |-> Append(slower, after_dt - before_dt)]
             ELSE [faster |-> faster, slower |-> slower]

\* `if before_dt is None: continue` : an explicit presence check
compare_step_isnone(before, trip, after_dt, faster, slower) ==
    LET before_dt == DictGet(before, trip)
    IN  IF ~before_dt.some THEN [faster |-> faster, slower |-> slower]
        ELSE IF before_dt.val > after_dt
             THEN [faster |-> Append(faster, before_dt.val - after_dt), slower |-> slower]
             ELSE IF after_dt > before_dt.val
                  THEN [faster |-> faster, slower |-> Append(slower, after_dt - before_dt.val)]
                  ELSE [faster |-> faster, slower |-> slower]

\* `if before_dt >= after_dt` : equal durations counted as faster
compare_step_ge(before, trip, after_dt, faster, slower) ==
    LET before_dt == DictGet(before, trip)
    IN  IF ~Truthy(before_dt) THEN [faster |-> faster, slower |-> slower]
        ELSE IF before_dt.val >= after_dt
             THEN [faster |-> Append(faster, before_dt.val - after_dt), slower |-> slower]
             ELSE [faster |-> faster, slower |-> Append(slower, after_dt - before_dt.val)]

\* The body of the loop of compare for one item (trip, after_dt) of
\* results2.trip_times; before is self.trip_times.
compare_step(before, trip, after_dt, faster, slower) ==
    LET before_dt == DictGet(before, trip)
    IN  IF ~Truthy(before_dt)
        THEN [faster |-> faster, slower |-> slower]
        ELSE IF before_dt.val > after_dt
             THEN [faster |-> Append(faster, before_dt.val - after_dt),
                   slower |-> slower]
             ELSE IF after_dt > before_dt.val
                  THEN [faster |-> faster,
                        slower |-> Append(slower, after_dt - before_dt.val)]
                  ELSE [faster |-> faster, slower |-> slower]

\* The loop of compare over results2.trip_times.items(), from item i on.
\* before is self.trip_times, after is results2.trip_times.
RECURSIVE compare_loop(_, _, _, _, _)
compare_loop(before, after, i, faster, slower) ==
    IF i > Len(after) THEN [faster |-> faster, slower |-> slower]
    ELSE LET r == compare_step(before, after[i][1], after[i][2], faster, slower)
         IN  compare_loop(before, after, i + 1, r.faster, r.slower)

\* Mutant of compare: self.trip_times.pop(trip, None) instead of get
compare_pop(heap, self, results2) ==
    LET r == compare_loop(heap[self].trip_times, heap[results2].trip_times,
                          1, <<>>, <<>>)
        raised == avg(r.faster).err \/ avg(r.slower).err
        keys2 == DictKeys(heap[results2].trip_times)
        popped == SelectSeq(heap[self].trip_times, LAMBDA it : it[1] \notin keys2)
    IN  [heap |-> [heap EXCEPT ![self].trip_times = popped],
         faster |-> r.faster,
         slower |-> r.slower,
         raised |-> raised,
         printed |-> IF raised THEN <<>>
                     ELSE <<Line(r.faster, "savings"), Line(r.slower, "loss")>>]

\* Results.compare(self, results2) on the heap of Results objects: the heap
\* it leaves, its two lists, whether it raised, and what it printed.
compare(heap, self, results2) ==
    LET r == compare_loop(heap[self].trip_times, heap[results2].trip_times,
                          1, <<>>, <<>>)
        raised == avg(r.faster).err \/ avg(r.slower).err
    IN  [heap |-> heap,
         faster |-> r.faster,
         slower |-> r.slower,
         raised |-> raised,
         printed |-> IF raised THEN <<>>
                     ELSE <<Line(r.faster, "savings"), Line(r.slower, "loss")>>]

\* ------------------------------------------------------------------ state
\* The two Results that compare relates: self is the baseline, results2 is
\* the experiment.  The caller builds one Results for each role.
Roles == {"baseline", "experiment"}

VARIABLES
    pc,           \* position of the thread: idle, load, goto, get, return, raised
    calls,        \* remote calls issued by the current/last run_sim, in order
    exc,          \* the exception propagating out of run_sim, or None
    raw_trips,    \* run_sim's local raw_trips
    num_aborted,  \* run_sim's local num_aborted
    trip_times,   \* run_sim's local trip_times
    results,      \* the Results objects built so far (the heap)
    ret,          \* index of the Results the last run_sim returned, 0 if none
    last_compare, \* the last compare call: its arguments and its two lists
    stdout        \* the lines the last compare call printed

vars == <<pc, calls, exc, raw_trips, num_aborted, trip_times, results, ret,
          last_compare, stdout>>

NoCompare == [self |-> 0, results2 |-> 0, faster |-> <<>>, slower |-> <<>>,
              raised |-> FALSE]

Init ==
    /\ pc = "idle"
    /\ calls = <<>>
    /\ exc = None
    /\ raw_trips = <<>>
    /\ num_aborted = 0
    /\ trip_times = <<>>
    /\ results = <<>>
    /\ ret = 0
    /\ last_compare = NoCompare
    /\ stdout = <<>>

Call(method, cmd, resp) ==
    [method |-> method, cmd |-> cmd, status_code |-> resp.status_code,
     text |-> resp.text]

\* The caller invokes run_sim (also after a previous invocation raised and
\* the caller caught the exception).
CallRunSim ==
    /\ pc \in {"idle", "raised"}
    /\ Len(results) < Cardinality(Roles)
    /\ pc' = "load"
    /\ calls' = <<>>
    /\ exc' = None
    /\ ret' = 0
    /\ UNCHANGED <<raw_trips, num_aborted, trip_times, results, last_compare, stdout>>

\* post(args, '/sim/load', json=...)
PostLoad ==
    /\ pc = "load"
    /\ \E resp \in Responses :
         /\ calls' = Append(calls, Call("POST", "/sim/load", resp))
         /\ IF post(resp).raised
            THEN pc' = "raised" /\ exc' = post(resp).exc
            ELSE pc' = "goto" /\ exc' = exc
    /\ UNCHANGED <<raw_trips, num_aborted, trip_times, results, ret, last_compare, stdout>>

\* post(args, '/sim/goto-time', params=...)
PostGotoTime ==
    /\ pc = "goto"
    /\ \E resp \in Responses :
         /\ calls' = Append(calls, Call("POST", "/sim/goto-time", resp))
         /\ IF post(resp).raised
            THEN pc' = "raised" /\ exc' = post(resp).exc
            ELSE pc' = "get" /\ exc' = exc
    /\ UNCHANGED <<raw_trips, num_aborted, trip_times, results, ret, last_compare, stdout>>

\* raw_trips = get(args, '/data/get-finished-trips').json()['trips'],
\* followed by the reduction loop.
GetFinishedTrips ==
    /\ pc = "get"
    /\ \E resp \in TripResponses :
         /\ calls' = Append(calls, Call("GET", "/data/get-finished-trips", resp))
         /\ IF get(resp).raised
            THEN /\ pc' = "raised"
                 /\ exc' = get(resp).exc
                 /\ UNCHANGED <<raw_trips, num_aborted, trip_times>>
            ELSE /\ pc' = "return"
                 /\ exc' = exc
                 /\ raw_trips' = resp.trips
                 /\ LET r == reduce_loop(resp.trips, 1, 0, <<>>)
                    IN  /\ num_aborted' = r.num_aborted
                        /\ trip_times' = r.trip_times
    /\ UNCHANGED <<results, ret, last_compare, stdout>>

\* return Results(num_aborted, trip_times); the locals go out of scope.
Return ==
    /\ pc = "return"
    /\ results' = Append(results, [num_aborted |-> num_aborted,
                                   trip_times |-> trip_times])
    /\ ret' = Len(results) + 1
    /\ pc' = "idle"
    /\ raw_trips' = <<>>
    /\ num_aborted' = 0
    /\ trip_times' = <<>>
    /\ UNCHANGED <<calls, exc, last_compare, stdout>>

\* The caller invokes results[self].compare(results[results2]).
Compare ==
    /\ pc = "idle"
    /\ \E self \in 1..Len(results), results2 \in 1..Len(results) :
         LET c == compare(results, self, results2)
         IN  /\ results' = c.heap
             /\ last_compare' = [self |-> self, results2 |-> results2,
                                 faster |-> c.faster, slower |-> c.slower,
                                 raised |-> c.raised]
             /\ stdout' = c.printed
    /\ UNCHANGED <<pc, calls, exc, raw_trips, num_aborted, trip_times, ret>>

Next ==
    \/ CallRunSim
    \/ PostLoad
    \/ PostGotoTime
    \/ GetFinishedTrips
    \/ Return
    \/ Compare

Spec == Init /\ [][Next]_vars

\* ------------------------------------------------------------ properties
\* The sequence of remote calls run_sim is written to make.
Sequence == << [method |-> "POST", cmd |-> "/sim/load"],
               [method |-> "POST", cmd |-> "/sim/goto-time"],
               [method |-> "GET", cmd |-> "/data/get-finished-trips"] >>

Succeeded(c) == c.status_code = codes_ok

\* C1: the calls of one run_sim are POST /sim/load, POST /sim/goto-time,
\* GET /data/get-finished-trips in this order, each issued at most once and
\* only after the previous one succeeded; a Results is returned (or about
\* to be) only when all three have succeeded.
C1_CallOrder ==
    /\ Len(calls) <= Len(Sequence)
    /\ \A i \in DOMAIN calls :
         /\ calls[i].method = Sequence[i].method
         /\ calls[i].cmd = Sequence[i].cmd
         /\ \A j \in 1..(i - 1) : Succeeded(calls[j])
    /\ (pc = "load") => calls = <<>>
    /\ (pc = "goto") => Len(calls) = 1 /\ Succeeded(calls[1])
    /\ (pc = "get") => Len(calls) = 2 /\ Succeeded(calls[2])
    /\ (pc = "return" \/ ret # 0) =>
         /\ Len(calls) = 3
         /\ \A i \in DOMAIN calls : Succeeded(calls[i])

C1_Witness ==
    /\ ret # 0
    /\ Len(calls) = 3
    /\ results[ret].trip_times # <<>>

\* C2: a call with a non-success status is the last call of its run_sim:
\* run_sim is then raising an exception that carries the response body, no
\* call follows it, no call is repeated, and no Results is returned.
C2_AbortOnFailure ==
    /\ \A i \in DOMAIN calls :
         ~Succeeded(calls[i]) =>
            /\ i = Len(calls)
            /\ pc = "raised"
            /\ exc = Some(calls[i].text)
            /\ ret = 0
    /\ \A i, j \in DOMAIN calls : calls[i].cmd = calls[j].cmd => i = j
    /\ (pc = "raised") =>
         /\ calls # <<>>
         /\ ~Succeeded(calls[Len(calls)])
         /\ raw_trips = <<>> /\ num_aborted = 0 /\ trip_times = <<>>

C2_Witness ==
    /\ pc = "raised"
    /\ Len(calls) = 3
    /\ exc = Some("internal error")

UniqueIds(raw) ==
    \A i, j \in DOMAIN raw : raw[i][2] = raw[j][2] => i = j

\* C3: when run_sim has reduced a raw trip list, num_aborted +
\* len(trip_times) is at most the number of raw records, and equals it when
\* the trip identifiers are unique; when every record has a null mode,
\* trip_times is empty and num_aborted is the number of records.
C3_Counts ==
    (pc = "return") =>
       /\ num_aborted + Len(trip_times) <= Len(raw_trips)
       /\ UniqueIds(raw_trips) => num_aborted + Len(trip_times) = Len(raw_trips)
       /\ (\A i \in DOMAIN raw_trips : raw_trips[i][3] = ModeNull) =>
             trip_times = <<>> /\ num_aborted = Len(raw_trips)

C3_Witness ==
    /\ pc = "return"
    /\ Len(raw_trips) = 2
    /\ UniqueIds(raw_trips)
    /\ num_aborted = 1
    /\ Len(trip_times) = 1

RecordsOf(raw, k) == {i \in DOMAIN raw : raw[i][2] = k}

\* C4 as stated: for every raw trip list, no record with a null mode has
\* its trip as a key of trip_times, and every key of trip_times is the trip
\* of exactly one raw record, whose mode is not null.
C4_Original ==
    (pc = "return") =>
       /\ \A i \in DOMAIN raw_trips :
            raw_trips[i][3] = ModeNull => raw_trips[i][2] \notin DictKeys(trip_times)
       /\ \A k \in DictKeys(trip_times) :
            /\ Cardinality(RecordsOf(raw_trips, k)) = 1
            /\ \A i \in RecordsOf(raw_trips, k) : raw_trips[i][3] # ModeNull

\* The last record of raw with trip k and a non-null mode (0 if none).
LastFinished(raw, k) ==
    LET S == {i \in RecordsOf(raw, k) : raw[i][3] # ModeNull}
    IN  IF S = {} THEN 0 ELSE CHOOSE i \in S : \A j \in S : j <= i

\* C4 amended: every key of trip_times is the trip of at least one raw
\* record with a non-null mode, and its value is the duration of the last
\* such record; a trip all of whose records have a null mode is never a
\* key; when the trip identifiers of the list are unique, C4 holds as stated.
C4_KeysFinished ==
    (pc = "return") =>
       /\ \A k \in DictKeys(trip_times) :
            /\ LastFinished(raw_trips, k) # 0
            /\ DictGet(trip_times, k) = Some(raw_trips[LastFinished(raw_trips, k)][4])
       /\ \A k \in Trips :
            LastFinished(raw_trips, k) = 0 => k \notin DictKeys(trip_times)
       /\ \A i, j \in DOMAIN trip_times : trip_times[i][1] = trip_times[j][1] => i = j
       /\ UniqueIds(raw_trips) =>
            /\ \A i \in DOMAIN raw_trips :
                 raw_trips[i][3] = ModeNull => raw_trips[i][2] \notin DictKeys(trip_times)
            /\ \A k \in DictKeys(trip_times) :
                 /\ Cardinality(RecordsOf(raw_trips, k)) = 1
                 /\ \A i \in RecordsOf(raw_trips, k) : raw_trips[i][3] # ModeNull

C4_Witness ==
    /\ pc = "return"
    /\ UniqueIds(raw_trips)
    /\ \E i, j \in DOMAIN raw_trips :
         /\ raw_trips[i][3] = ModeNull
         /\ raw_trips[j][3] # ModeNull
         /\ raw_trips[j][2] \in DictKeys(trip_times)

\* A compare call has been made; its baseline and experiment trip_times.
Compared == last_compare.self # 0
Baseline == results[last_compare.self].trip_times
Experiment == results[last_compare.results2].trip_times

\* The duration of trip t in dict d (t a key of d).
At(d, t) == DictGet(d, t).val

\* The multiset of the elements of a sequence: element |-> multiplicity.
BagOfSeq(q) ==
    [v \in {q[i] : i \in DOMAIN q} |-> Cardinality({i \in DOMAIN q : q[i] = v})]

\* The multiset of the values of a function over a finite set.
BagOfFn(f) ==
    [v \in {f[t] : t \in DOMAIN f} |-> Cardinality({t \in DOMAIN f : f[t] = v})]

RECURSIVE SumFn(_)
SumFn(f) ==
    IF DOMAIN f = {} THEN 0
    ELSE LET t == CHOOSE x \in DOMAIN f : TRUE
         IN  f[t] + SumFn([x \in DOMAIN f \ {t} |-> f[x]])

\* The trips finished in both runs with a non-zero baseline duration.
Common(b, e) ==
    {t \in DictKeys(b) \cap DictKeys(e) : At(b, t) # 0}

\* Time saved, per trip that got faster; time lost, per trip that got slower.
Savings(b, e) ==
    [t \in {x \in Common(b, e) : At(b, x) > At(e, x)} |-> At(b, t) - At(e, t)]
Losses(b, e) ==
    [t \in {x \in Common(b, e) : At(e, x) > At(b, x)} |-> At(e, t) - At(b, t)]

\* The line reporting the count and the mean of the values of f.
ReportOf(f, what) ==
    [count |-> Cardinality(DOMAIN f),
     tenths |-> IF DOMAIN f = {} THEN 0
                ELSE Format1f([num |-> SumFn(f), den |-> Cardinality(DOMAIN f)]),
     what |-> what]

\* C5: after baseline.compare(experiment), faster is the multiset of
\* (baseline - experiment) over the trips in both trip_times with a non-zero
\* baseline duration greater than the experiment's, slower the multiset of
\* (experiment - baseline) over such trips with a greater experiment
\* duration, and the count and mean of each are printed; the example
\* {A:100, B:50, C:0} against {A:80, B:60, D:30} gives [20] and [10].
C5_FasterSlower ==
    /\ Compared =>
         /\ BagOfSeq(last_compare.faster) = BagOfFn(Savings(Baseline, Experiment))
         /\ BagOfSeq(last_compare.slower) = BagOfFn(Losses(Baseline, Experiment))
         /\ stdout = << ReportOf(Savings(Baseline, Experiment), "savings"),
                        ReportOf(Losses(Baseline, Experiment), "loss") >>
    /\ compare_loop(<< <<"A", 100>>, <<"B", 50>>, <<"C", 0>> >>,
                    << <<"A", 80>>, <<"B", 60>>, <<"D", 30>> >>, 1, <<>>, <<>>)
         = [faster |-> <<20>>, slower |-> <<10>>]

C5_Witness ==
    /\ Compared
    /\ Len(last_compare.faster) = 2
    /\ last_compare.faster[1] # last_compare.faster[2]
    /\ stdout[1].tenths = 15

\* The number of elements compare collected.
Collected == Len(last_compare.faster) + Len(last_compare.slower)

\* C6: a trip that is a key of the experiment's trip_times but not of the
\* baseline's contributes nothing: compare collects at most one element per
\* experiment trip that is also a baseline key, and collects exactly what
\* it collects from the experiment with the experiment-only trips removed.
C6_AbsentFromBaseline ==
    Compared =>
       LET shared == SelectSeq(Experiment, LAMBDA it : it[1] \in DictKeys(Baseline))
           r == compare_loop(Baseline, shared, 1, <<>>, <<>>)
       IN  /\ Collected <= Len(shared)
           /\ last_compare.faster = r.faster
           /\ last_compare.slower = r.slower

C6_Witness ==
    /\ Compared
    /\ \E t \in DictKeys(Experiment) \ DictKeys(Baseline) : At(Experiment, t) > 0
    /\ Collected = 1

\* C7: a trip whose baseline duration is 0 is skipped as if it were absent
\* from the baseline: compare collects at most one element per experiment
\* trip with a non-zero baseline duration, and collects exactly what it
\* collects against the baseline with the zero-duration trips removed.
C7_ZeroBaseline ==
    Compared =>
       LET nonzero == SelectSeq(Baseline, LAMBDA it : it[2] # 0)
           r == compare_loop(nonzero, Experiment, 1, <<>>, <<>>)
       IN  /\ Collected <= Cardinality(Common(Baseline, Experiment))
           /\ last_compare.faster = r.faster
           /\ last_compare.slower = r.slower

C7_Witness ==
    /\ Compared
    /\ \E t \in DictKeys(Experiment) \cap DictKeys(Baseline) :
         At(Baseline, t) = 0 /\ At(Experiment, t) > 0
    /\ Collected = 1

\* Two dicts with the same items (Python's ==, insertion order aside).
SameItems(d1, d2) == {d1[i] : i \in DOMAIN d1} = {d2[i] : i \in DOMAIN d2}

\* C8: a trip with equal baseline and experiment duration is in neither
\* collection (every collected difference is positive, and there is at most
\* one per trip whose two durations differ); when the two trip_times are
\* identical both collections are empty and compare prints 0 trips and an
\* average of 0.0 for each, without raising.
C8_EqualDurations ==
    Compared =>
       /\ \A i \in DOMAIN last_compare.faster : last_compare.faster[i] > 0
       /\ \A i \in DOMAIN last_compare.slower : last_compare.slower[i] > 0
       /\ Collected <= Cardinality({t \in DictKeys(Baseline) \cap DictKeys(Experiment) :
                                      At(Baseline, t) # At(Experiment, t)})
       /\ ~last_compare.raised
       /\ SameItems(Baseline, Experiment) =>
            /\ last_compare.faster = <<>>
            /\ last_compare.slower = <<>>
            /\ stdout = << [count |-> 0, tenths |-> 0, what |-> "savings"],
                           [count |-> 0, tenths |-> 0, what |-> "loss"] >>

C8_Witness ==
    /\ Compared
    /\ last_compare.self # last_compare.results2
    /\ SameItems(Baseline, Experiment)
    /\ Len(Baseline) = 2
    /\ \E i \in DOMAIN Baseline : Baseline[i][2] > 0
    /\ stdout # <<>>

\* C9: a compare call (the only step from idle to idle) leaves every
\* Results object as it was: num_aborted and trip_times of the baseline, of
\* the experiment, and of every other Results, also when both arguments are
\* the same object.
C9_CompareIsPure ==
    [][(pc = "idle" /\ pc' = "idle") => results' = results]_vars

C9_Witness ==
    /\ Compared
    /\ last_compare.self = last_compare.results2
    /\ Len(Baseline) = 2
    /\ results[last_compare.self].num_aborted = 0

NonZero(d) == \A i \in DOMAIN d : d[i][2] # 0

\* C10: when every duration of both Results is non-zero, swapping the roles
\* exchanges the collections: faster of a.compare(b) is slower of
\* b.compare(a) as a multiset, and vice versa.  With a zero duration the
\* exchange can fail: baseline {t: d} against experiment {t: 0} records the
\* saving d, while baseline {t: 0} against experiment {t: d} records nothing.
C10_SwapExchanges ==
    Compared =>
       LET swapped == compare(results, last_compare.results2, last_compare.self)
       IN  /\ (NonZero(Baseline) /\ NonZero(Experiment)) =>
                /\ BagOfSeq(last_compare.faster) = BagOfSeq(swapped.slower)
                /\ BagOfSeq(last_compare.slower) = BagOfSeq(swapped.faster)
           /\ \A t \in Trips, d \in Durations \ {0} :
                (Baseline = << <<t, d>> >> /\ Experiment = << <<t, 0>> >>) =>
                   /\ last_compare.faster = <<d>>
                   /\ last_compare.slower = <<>>
                   /\ swapped.faster = <<>>
                   /\ swapped.slower = <<>>

C10_Witness ==
    /\ Compared
    /\ NonZero(Baseline) /\ NonZero(Experiment)
    /\ Len(last_compare.faster) = 1
    /\ Len(last_compare.slower) = 1

====
